---- MODULE Spec2Model ----
(***************************************************************************)
(* Model of fetch_and_build.py: the XLSX -> events part                    *)
(* (list_kw_sheets, try_parse_time, extract_dates_from_header,             *)
(* parse_xlsx_to_events) and the retention filter of main.                 *)
(*                                                                         *)
(* A text is a sequence of tokens, so that strip, split, the regular       *)
(* expressions and str() are computed and not assumed.  A DataFrame is a   *)
(* sequence of rows, each a sequence of cells; df.iat[r, c] is 0-based.    *)
(* A datetime is a number of minutes: ordinal day * 1440 + minute of day.  *)
(***************************************************************************)
EXTENDS Integers, Sequences, FiniteSets, TLC

VARIABLES
    sheets,      \* the workbook: sequence of [name, df], in xls.sheet_names order
    pc,          \* position in main / parse_xlsx_to_events
    kw,          \* list_kw_sheets(xls): indices into sheets, in processing order
    si,          \* position of the for loop in kw (1-based)
    time_col,    \* parse_xlsx_to_events: time_col (None or a column)
    col_dates,   \* parse_xlsx_to_events: col_dates (column -> date)
    start_row,   \* parse_xlsx_to_events: start_row (None or a row)
    day_cols,    \* parse_xlsx_to_events: day_cols
    r,           \* parse_xlsx_to_events: r of the while loop
    events,      \* parse_xlsx_to_events: events, then the returned list
    raw,         \* history: events as the loops left it, before line 321
    now,         \* main: now (minutes, an instant)
    out          \* main: the events handed to build_ics / build_html

vars == <<sheets, pc, kw, si, time_col, col_dates, day_cols, start_row, r, events, raw,
          now, out>>

None == [none |-> TRUE]     \* None, where a time, a match or a date is expected
NoIndex == -1               \* None, where a column or a row is expected

(***************************************************************************)
(* Texts                                                                   *)
(***************************************************************************)
SP == [t |-> "sp"]                                 \* a blank
NL == [t |-> "nl"]                                 \* a line break
BAR == [t |-> "bar"]                               \* the character |
W(w) == [t |-> "w", w |-> w]                       \* letters, digits, dots
HM(h, m) == [t |-> "hm", h |-> h, m |-> m]         \* digits ":" two digits
DMY(d, mo, y) == [t |-> "dmy", d |-> d, mo |-> mo, y |-> y]   \* d.m.yyyy
HMS(h, m) == [t |-> "hms", h |-> h, m |-> m]       \* hh:mm:00, str(dt.time)
ISO(y, mo, d, h, m) == [t |-> "iso", y |-> y, mo |-> mo, d |-> d, h |-> h, m |-> m]

IsSpace(tok) == tok.t \in {"sp", "nl"}

RECURSIVE lstrip(_)
lstrip(s) == IF s = <<>> THEN s
             ELSE IF IsSpace(Head(s)) THEN lstrip(Tail(s)) ELSE s

RECURSIVE rstrip(_)
rstrip(s) == IF s = <<>> THEN s
             ELSE IF IsSpace(s[Len(s)]) THEN rstrip(SubSeq(s, 1, Len(s) - 1)) ELSE s

strip(s) == rstrip(lstrip(s))

\* str.lower(), on the words whose case the program looks at
LowerWord(w) ==
    CASE w \in {"Montag", "MONTAG"} -> "montag"
      [] w \in {"Dienstag", "DIENSTAG"} -> "dienstag"
      [] w = "Mittwoch" -> "mittwoch"
      [] w = "Donnerstag" -> "donnerstag"
      [] w = "Freitag" -> "freitag"
      [] w = "Samstag" -> "samstag"
      [] w = "Sonntag" -> "sonntag"
      [] w \in {"NaN", "NAN"} -> "nan"
      [] OTHER -> w

lower(s) == [i \in 1..Len(s) |-> IF s[i].t = "w" THEN W(LowerWord(s[i].w)) ELSE s[i]]

(***************************************************************************)
(* Cells, as pandas.read_excel(header=None) delivers them                  *)
(***************************************************************************)
NaN == [k |-> "nan"]
TimeCell(h, m) == [k |-> "time", h |-> h, m |-> m]
DateTimeCell(y, mo, d, h, m) == [k |-> "datetime", y |-> y, mo |-> mo, d |-> d, h |-> h, m |-> m]
Text(s) == [k |-> "str", s |-> s]

str(cell) ==
    CASE cell.k = "nan" -> <<W("nan")>>
      [] cell.k = "time" -> <<HMS(cell.h, cell.m)>>
      [] cell.k = "datetime" -> <<ISO(cell.y, cell.mo, cell.d, cell.h, cell.m)>>
      [] OTHER -> cell.s

time(h, m) == [h |-> h, m |-> m]

try_parse_time(cell) ==
    IF cell.k = "nan" THEN None
    ELSE IF cell.k = "time" THEN time(cell.h, cell.m)
    ELSE IF cell.k = "datetime" THEN time(cell.h, cell.m)
    ELSE LET s == strip(str(cell))
         IN  IF Len(s) = 1 /\ s[1].t = "hm" /\ 0 <= s[1].h /\ s[1].h < 24
                /\ 0 <= s[1].m /\ s[1].m < 60
             THEN time(s[1].h, s[1].m)
             ELSE None

(***************************************************************************)
(* datetime.date, datetime.datetime and TZ = timezone("Europe/Vienna")     *)
(***************************************************************************)
MINYEAR == 1
MAXYEAR == 9999

IsLeap(y) == y % 4 = 0 /\ (y % 100 # 0 \/ y % 400 = 0)

DaysInMonth(y, mo) ==
    IF mo = 2 THEN (IF IsLeap(y) THEN 29 ELSE 28)
    ELSE IF mo \in {4, 6, 9, 11} THEN 30 ELSE 31

\* dt.date(y, mo, d) raises ValueError exactly when this is false
ValidDate(y, mo, d) ==
    /\ MINYEAR <= y /\ y <= MAXYEAR
    /\ 1 <= mo /\ mo <= 12
    /\ 1 <= d /\ d <= DaysInMonth(y, mo)

date(y, mo, d) == [y |-> y, mo |-> mo, d |-> d]

DaysBeforeYear(y) == (y - 1) * 365 + (y - 1) \div 4 - (y - 1) \div 100 + (y - 1) \div 400

RECURSIVE DaysBeforeMonth(_, _)
DaysBeforeMonth(y, mo) ==
    IF mo <= 1 THEN 0 ELSE DaysBeforeMonth(y, mo - 1) + DaysInMonth(y, mo - 1)

toordinal(dd) == DaysBeforeYear(dd.y) + DaysBeforeMonth(dd.y, dd.mo) + dd.d

MinutesPerDay == 1440

\* dt.datetime.combine(date, time): a naive datetime, in minutes
combine(dd, t) == toordinal(dd) * MinutesPerDay + t.h * 60 + t.m

\* the year of a naive datetime
YearOf(naive) ==
    LET ord == naive \div MinutesPerDay
        g == (ord * 400) \div 146097 + 1
    IN  IF DaysBeforeYear(g) >= ord THEN g - 1
        ELSE IF DaysBeforeYear(g + 1) < ord THEN g + 1 ELSE g

\* Monday = 0 ... Sunday = 6
weekday(ord) == (ord + 6) % 7

LastSunday(y, mo) ==
    LET last == toordinal(date(y, mo, DaysInMonth(y, mo)))
    IN  last - ((weekday(last) + 1) % 7)

\* Europe/Vienna (the rule in force since 1996): summer time from the last
\* Sunday of March, 02:00 CET, to the last Sunday of October, 03:00 CEST.
\* pytz localize(is_dst=False): a wall time the spring change skips
\* (02:00..02:59) keeps CET, a wall time the autumn change repeats is CET.
utcoffset(naive) ==
    LET y == YearOf(naive)
        spring == LastSunday(y, 3) * MinutesPerDay + 180
        autumn == LastSunday(y, 10) * MinutesPerDay + 120
    IN  IF spring <= naive /\ naive < autumn THEN 120 ELSE 60

\* TZ.localize(naive): an aware datetime; Python compares, hashes and
\* subtracts aware datetimes by their instant, which is what is kept here
localize(naive) == naive - utcoffset(naive)

(***************************************************************************)
(* list_kw_sheets.  A sheet name is a sequence of one-character strings.   *)
(***************************************************************************)
Digits == <<"0", "1", "2", "3", "4", "5", "6", "7", "8", "9">>

IsDigit(ch) == \E i \in 1..Len(Digits) : Digits[i] = ch

DigitValue(ch) == (CHOOSE i \in 1..Len(Digits) : Digits[i] = ch) - 1

\* str.zfill(2)
zfill2(s) ==
    IF Len(s) >= 2 THEN s
    ELSE IF Len(s) = 1 THEN (IF s[1] \in {"+", "-"} THEN s \o <<"0">> ELSE <<"0">> \o s)
    ELSE <<"0", "0">>

\* s[-2:]
last2(s) == IF Len(s) <= 2 THEN s ELSE SubSeq(s, Len(s) - 1, Len(s))

\* re.fullmatch(r"\d{2}", s)
TwoDigits(s) == Len(s) = 2 /\ IsDigit(s[1]) /\ IsDigit(s[2])

\* mutant: the name is not zero-filled
IsKWName_nozfill(s) ==
    IF TwoDigits(s) THEN TRUE
    ELSE TwoDigits(last2(s))

IsKWName(s) ==
    IF TwoDigits(s) \/ TwoDigits(zfill2(s)) THEN TRUE
    ELSE TwoDigits(last2(s))

\* int(s), for the texts keyf can meet; everything else raises
RECURSIVE int(_)
int(s) == IF Len(s) = 1 THEN DigitValue(s[1])
          ELSE int(SubSeq(s, 1, Len(s) - 1)) * 10 + DigitValue(s[Len(s)])

keyf(k) ==
    LET t == last2(k)
    IN  IF t # <<>> /\ \A i \in 1..Len(t) : IsDigit(t[i]) THEN int(t) ELSE 999

\* insertion of x behind every element whose key is not greater: a stable sort
RECURSIVE insort(_, _)
insort(s, x) ==
    IF s = <<>> THEN <<x>>
    ELSE IF x.key < Head(s).key THEN <<x>> \o s
    ELSE <<Head(s)>> \o insort(Tail(s), x)

RECURSIVE sorted(_)
sorted(s) ==
    IF s = <<>> THEN <<>>
    ELSE insort(sorted(SubSeq(s, 1, Len(s) - 1)), s[Len(s)])

\* the selected sheets, as indices into the workbook, in processing order
list_kw_sheets(xls) ==
    LET kws == SelectSeq([i \in 1..Len(xls) |-> i], LAMBDA i : IsKWName(xls[i].name))
        keyed == [j \in 1..Len(kws) |-> [key |-> keyf(xls[kws[j]].name), item |-> kws[j]]]
        srt == sorted(keyed)
    IN  [j \in 1..Len(srt) |-> srt[j].item]

(***************************************************************************)
(* DataFrames                                                              *)
(***************************************************************************)
len(df) == Len(df)                                     \* len(df), df.shape[0]
ncols(df) == IF Len(df) = 0 THEN 0 ELSE Len(df[1])     \* df.shape[1]
iat(df, row, col) == df[row + 1][col + 1]              \* df.iat[row, col]
empty(df) == len(df) = 0 \/ ncols(df) = 0              \* df.empty

Min(a, b) == IF a <= b THEN a ELSE b

\* the truth value of what try_parse_time returns (a dt.time is always true)
IsTime(cell) == try_parse_time(cell) # None

(***************************************************************************)
(* extract_dates_from_header                                               *)
(***************************************************************************)
Weekdays == {"montag", "dienstag", "mittwoch", "donnerstag", "freitag", "samstag", "sonntag"}

HeaderRows == 30
LookAhead == 4

\* weekday_re.match(val), re.I
weekday_match(val) == Len(val) = 1 /\ val[1].t = "w" /\ LowerWord(val[1].w) \in Weekdays

\* date_re.search(s2): the first d.m.yyyy of the text, or None
RECURSIVE date_search(_)
date_search(s2) ==
    IF s2 = <<>> THEN None
    ELSE IF Head(s2).t = "dmy" THEN Head(s2) ELSE date_search(Tail(s2))

\* mutant: a date pattern that is no calendar date does not end the loop
RECURSIVE look_ahead_past_invalid(_, _, _, _)
look_ahead_past_invalid(df, row, c, look) ==
    IF look > LookAhead \/ row + look >= len(df) THEN None
    ELSE LET m == date_search(strip(str(iat(df, row + look, c))))
         IN  IF m # None /\ ValidDate(m.y, m.mo, m.d) THEN date(m.y, m.mo, m.d)
             ELSE look_ahead_past_invalid(df, row, c, look + 1)

\* the loop "for look in range(1, 5)" below the weekday in (row, c), from
\* look on: the date it assigns to col_date[c], or None.  The first cell
\* with a date pattern ends the loop, whether or not dt.date accepts it.
RECURSIVE look_ahead(_, _, _, _)
look_ahead(df, row, c, look) ==
    IF look > LookAhead \/ row + look >= len(df) THEN None
    ELSE LET m == date_search(strip(str(iat(df, row + look, c))))
         IN  IF m = None THEN look_ahead(df, row, c, look + 1)
             ELSE IF ValidDate(m.y, m.mo, m.d) THEN date(m.y, m.mo, m.d)
             ELSE None

\* what the weekday test and the look-ahead assign for the cell (row, c)
header_cell(df, row, c) ==
    IF weekday_match(strip(str(iat(df, row, c)))) THEN look_ahead(df, row, c, 1) ELSE None

\* the two for loops: rows ascending, so of the assignments to col_date[c]
\* the one from the last row stands
extract_dates_from_header(df) ==
    LET rows == 0..(Min(HeaderRows, len(df)) - 1)
        assigning(c) == {row \in rows : header_cell(df, row, c) # None}
        keys == {c \in 0..(ncols(df) - 1) : assigning(c) # {}}
    IN  [c \in keys |->
            header_cell(df, CHOOSE row \in assigning(c) : \A q \in assigning(c) : q <= row, c)]

\* sorted(col_dates.keys())
RECURSIVE sorted_keys(_)
sorted_keys(S) ==
    IF S = {} THEN <<>>
    ELSE LET m == CHOOSE x \in S : \A y \in S : x <= y
         IN  <<m>> \o sorted_keys(S \ {m})

(***************************************************************************)
(* parse_xlsx_to_events, per worksheet                                     *)
(***************************************************************************)
TimeColCandidates == 5
TimeColRows == 200
TimeColThreshold == 5
StartWindow == 10
StartCount == 3
GraceMinutes == 5

\* mutant: 3 times are enough for a time column
find_time_col_three(df) ==
    LET got(c) == Cardinality({row \in 0..(Min(TimeColRows, len(df)) - 1) :
                                  IsTime(iat(df, row, c))})
        ok == {c \in 0..(Min(TimeColCandidates, ncols(df)) - 1) : got(c) >= StartCount}
    IN  IF ok = {} THEN NoIndex ELSE CHOOSE c \in ok : \A d \in ok : c <= d

\* step 1: the first of the leftmost columns with more than 5 times, or None
find_time_col(df) ==
    LET got(c) == Cardinality({row \in 0..(Min(TimeColRows, len(df)) - 1) :
                                  IsTime(iat(df, row, c))})
        ok == {c \in 0..(Min(TimeColCandidates, ncols(df)) - 1) : got(c) > TimeColThreshold}
    IN  IF ok = {} THEN NoIndex ELSE CHOOSE c \in ok : \A d \in ok : c <= d

\* mutant: the count starts below the row
window_count_below(df, tc, row) ==
    Cardinality({k \in (row + 1)..(Min(row + 1 + StartWindow, len(df)) - 1) : IsTime(iat(df, k, tc))})

\* step 3: cnt of line 284 for row
window_count(df, tc, row) ==
    Cardinality({k \in row..(Min(row + StartWindow, len(df)) - 1) : IsTime(iat(df, k, tc))})

find_start_row(df, tc) ==
    LET ok == {row \in 0..(len(df) - 1) :
                  IsTime(iat(df, row, tc)) /\ window_count(df, tc, row) >= StartCount}
    IN  IF ok = {} THEN NoIndex ELSE CHOOSE row \in ok : \A q \in ok : row <= q

\* the inner while loop: the first row from rr on that ends the run
RECURSIVE run_end(_, _, _, _, _)
run_end(df, tc, c, cell, rr) ==
    IF rr >= len(df) THEN rr
    ELSE IF ~ IsTime(iat(df, rr, tc)) THEN rr
    ELSE IF strip(str(iat(df, rr, c))) # cell THEN rr
    ELSE run_end(df, tc, c, cell, rr + 1)

\* re.split(r"\s*\|\s*|\n", cell), each part stripped, the empty ones dropped
RECURSIVE split_parts(_, _)
split_parts(s, cur) ==
    LET done == IF strip(cur) = <<>> THEN <<>> ELSE <<strip(cur)>>
    IN  IF s = <<>> THEN done
        ELSE IF Head(s).t \in {"bar", "nl"} THEN done \o split_parts(Tail(s), <<>>)
        ELSE split_parts(Tail(s), Append(cur, Head(s)))

\* lines 306-317: the event of the run of cell that starts in row, column c
make_event(df, tc, dates, row, c, cell) ==
    LET rr == run_end(df, tc, c, cell, row + 1)
        start_time == try_parse_time(iat(df, row, tc))
        end_time == try_parse_time(iat(df, rr - 1, tc))
        end_dt == combine(dates[c], end_time) + GraceMinutes
        start_dt == combine(dates[c], start_time)
        parts == split_parts(cell, <<>>)
    IN  [title |-> IF Len(parts) >= 1 THEN parts[1] ELSE cell,
         lecturer |-> IF Len(parts) >= 2 THEN parts[2] ELSE <<>>,
         room |-> IF Len(parts) >= 3 THEN parts[3] ELSE <<>>,
         start |-> localize(start_dt),
         end |-> localize(end_dt)]

\* line 298: the cell is skipped
blank(cell) == cell = <<>> \/ lower(cell) = <<W("nan")>>

\* the loop "for c in day_cols" of one row: the events it appends
RECURSIVE row_events(_, _, _, _, _)
row_events(df, tc, dates, row, cols) ==
    IF cols = <<>> THEN <<>>
    ELSE LET c == Head(cols)
             cell == strip(str(iat(df, row, c)))
         IN  (IF blank(cell) THEN <<>> ELSE <<make_event(df, tc, dates, row, c, cell)>>)
             \o row_events(df, tc, dates, row, Tail(cols))

\* lines 321-323: drop end <= start, then the dict keyed by the five fields
\* mutant: the key leaves the room out
EventKey_noroom(e) == <<e.title, e.lecturer, e.start, e.end>>

EventKey(e) == <<e.title, e.lecturer, e.room, e.start, e.end>>

RECURSIVE dict_put(_, _, _)
dict_put(d, key, val) ==
    IF d = <<>> THEN <<[key |-> key, val |-> val]>>
    ELSE IF Head(d).key = key THEN <<[key |-> key, val |-> val]>> \o Tail(d)
    ELSE <<Head(d)>> \o dict_put(Tail(d), key, val)

RECURSIVE dict_of(_, _)
dict_of(evs, d) ==
    IF evs = <<>> THEN d
    ELSE dict_of(Tail(evs), dict_put(d, EventKey(Head(evs)), Head(evs)))

\* mutant: the comparison of line 321 lets a zero duration through
positive_or_zero(evs) == SelectSeq(evs, LAMBDA e : e.end >= e.start)

positive(evs) == SelectSeq(evs, LAMBDA e : e.end > e.start)

uniq_values(evs) ==
    LET uniq == dict_of(evs, <<>>)
    IN  [i \in 1..Len(uniq) |-> uniq[i].val]

(***************************************************************************)
(* main: the retention filter                                              *)
(***************************************************************************)
KeepPastDays == 7
KeepFutureDays == 120

\* mutant: the window without its ends
retained_strict(e, n) ==
    /\ e.end > n - KeepPastDays * MinutesPerDay
    /\ e.start < n + KeepFutureDays * MinutesPerDay

retained(e, n) ==
    /\ e.end >= n - KeepPastDays * MinutesPerDay
    /\ e.start <= n + KeepFutureDays * MinutesPerDay

(***************************************************************************)
(* The steps of main                                                       *)
(***************************************************************************)
Df == sheets[kw[si]].df

\* line 263: the sheet names are listed and ordered
ListSheets ==
    /\ pc = "start"
    /\ kw' = list_kw_sheets(sheets)
    /\ si' = 1
    /\ pc' = "loop"
    /\ UNCHANGED <<sheets, time_col, col_dates, day_cols, start_row, r, events, raw, now, out>>

\* lines 264-273: the next sheet is read; step 1
FindTimeCol ==
    /\ pc = "loop"
    /\ si <= Len(kw)
    /\ IF empty(Df)
       THEN /\ si' = si + 1
            /\ UNCHANGED <<pc, time_col>>
       ELSE /\ time_col' = find_time_col(Df)
            /\ IF time_col' = NoIndex
               THEN si' = si + 1 /\ pc' = "loop"
               ELSE si' = si /\ pc' = "daycols"
    /\ UNCHANGED <<sheets, kw, col_dates, day_cols, start_row, r, events, raw, now, out>>

\* mutant: a sheet without day columns ends the loop over the sheets
FindDayCols_break ==
    /\ pc = "daycols"
    /\ col_dates' = extract_dates_from_header(Df)
    /\ day_cols' = sorted_keys(DOMAIN col_dates')
    /\ IF day_cols' = <<>>
       THEN si' = Len(kw) + 1 /\ pc' = "loop"
       ELSE si' = si /\ pc' = "startrow"
    /\ UNCHANGED <<sheets, kw, time_col, start_row, r, events, raw, now, out>>

\* lines 275-278: step 2
FindDayCols ==
    /\ pc = "daycols"
    /\ col_dates' = extract_dates_from_header(Df)
    /\ day_cols' = sorted_keys(DOMAIN col_dates')
    /\ IF day_cols' = <<>>
       THEN si' = si + 1 /\ pc' = "loop"
       ELSE si' = si /\ pc' = "startrow"
    /\ UNCHANGED <<sheets, kw, time_col, start_row, r, events, raw, now, out>>

\* lines 280-289: step 3
FindStartRow ==
    /\ pc = "startrow"
    /\ start_row' = find_start_row(Df, time_col)
    /\ IF start_row' = NoIndex
       THEN si' = si + 1 /\ pc' = "loop" /\ r' = r
       ELSE si' = si /\ pc' = "scan" /\ r' = start_row'
    /\ UNCHANGED <<sheets, kw, time_col, col_dates, day_cols, events, raw, now, out>>

\* lines 290-318: one pass of the while loop; after the last row the for
\* loop goes on to the next sheet
ScanRow ==
    /\ pc = "scan"
    /\ r < len(Df)
    /\ events' = IF IsTime(iat(Df, r, time_col))
                 THEN events \o row_events(Df, time_col, col_dates, r, day_cols)
                 ELSE events
    /\ r' = r + 1
    /\ IF r' < len(Df)
       THEN si' = si /\ pc' = "scan"
       ELSE si' = si + 1 /\ pc' = "loop"
    /\ UNCHANGED <<sheets, kw, time_col, col_dates, day_cols, start_row, raw, now, out>>

\* lines 320-323: after the last sheet
Finish ==
    /\ pc = "loop"
    /\ si > Len(kw)
    /\ raw' = events
    /\ events' = uniq_values(positive(events))
    /\ pc' = "parsed"
    /\ UNCHANGED <<sheets, kw, si, time_col, col_dates, day_cols, start_row, r, now, out>>

(***************************************************************************)
(* Workbooks                                                               *)
(***************************************************************************)
GridRows == 7          \* rows of the time grid of a generated sheet
FreeRows == 3          \* leading grid rows whose day cell is chosen freely
MaxSheets == 3         \* sheets of a generated workbook
MaxNameLen == 3        \* characters of a generated sheet name
MaxShift == 5          \* rows a weekday's date may lie below it
MaxLead == 2           \* rows before the first time of a generated axis
MaxGap == 9            \* rows between the two blocks of a generated axis
ScenarioShift == 2     \* rows the scenario's grid may lie further down

TxtA == <<W("Networks"), SP, BAR, SP, W("Dr."), SP, W("X"), SP, BAR, SP, W("R1")>>
TxtR2 == <<W("Networks"), SP, BAR, SP, W("Dr."), SP, W("X"), SP, BAR, SP, W("R2")>>
TxtNL == <<W("Networks"), NL, W("Dr."), SP, W("X"), NL, W("R1")>>
TxtB == <<W("Other")>>

CA == Text(TxtA)
CApad == Text(<<SP>> \o TxtA \o <<SP, NL>>)
CR2 == Text(TxtR2)
CB == Text(TxtB)
CBlank == Text(<<SP>>)
Word(w) == Text(<<W(w)>>)

Dmy1 == DMY(6, 10, 2025)         \* a Monday
Dmy2 == DMY(7, 10, 2025)
DmySpring == DMY(29, 3, 2026)    \* the clocks go from 02:00 to 03:00
DmyBad == DMY(31, 2, 2025)       \* no calendar date

Asc == [base |-> 540, step |-> 45]         \* 09:00, 09:45, 10:30, ...
Desc == [base |-> 540, step |-> -5]        \* 09:00, 08:55, ...: decreasing
Late == [base |-> 1413, step |-> 13]       \* 23:33, 23:46, 23:59, 00:12, ...
Night == [base |-> 90, step |-> 45]        \* 01:30, 02:15, 03:00, ...

\* the i-th time of an axis, as a native time, a text or a native datetime
AxisCell(ax, i) ==
    LET m == (ax.base + ax.step * i + 10 * MinutesPerDay) % MinutesPerDay
    IN  CASE i % 3 = 0 -> TimeCell(m \div 60, m % 60)
          [] i % 3 = 1 -> Text(<<HM(m \div 60, m % 60)>>)
          [] OTHER -> DateTimeCell(1900, 1, 1, m \div 60, m % 60)

Body2 == <<CB, CBlank, CB, CB, CB, Text(TxtNL), CA>>

At(sq, i) == IF i >= 0 /\ i < Len(sq) THEN sq[i + 1] ELSE NaN

\* a sheet of three columns: two header rows, then the grid.  Column 0 is
\* the axis (ntimes times, none in row gap), columns 1 and 2 are days.
GridSheet(ax, ntimes, gap, h0, h1, h2, dmy, body1) ==
    [row \in 1..(2 + GridRows) |->
        LET i == row - 3
        IN  IF row = 1 THEN << IF h0 THEN Word("Montag") ELSE NaN,
                               IF h1 # "none" THEN Word("Montag") ELSE NaN,
                               IF h2 THEN Word("DIENSTAG") ELSE NaN >>
            ELSE IF row = 2 THEN << IF h0 THEN Text(<<dmy>>) ELSE NaN,
                                    IF h1 = "full" THEN Text(<<dmy>>) ELSE NaN,
                                    IF h2 THEN Text(<<W("Datum:"), SP, Dmy2>>) ELSE NaN >>
            ELSE << IF i = gap THEN Word("Pause")
                    ELSE IF i >= ntimes THEN NaN ELSE AxisCell(ax, i),
                    At(body1, i),
                    At(Body2, i) >>]

Sheet41(df) == << [name |-> <<"4", "1">>, df |-> df] >>

\* one week: the day-time axis whole, with a row that is no time, and with a
\* weekday and a date above the axis; the decreasing and the late axis; the
\* night axis on the day the clocks change
GridVariants ==
    { [ax |-> Asc, gap |-> -1, h0 |-> FALSE, dmy |-> Dmy1],
      [ax |-> Asc, gap |-> 1, h0 |-> FALSE, dmy |-> Dmy1],
      [ax |-> Asc, gap |-> -1, h0 |-> TRUE, dmy |-> Dmy1],
      [ax |-> Desc, gap |-> -1, h0 |-> FALSE, dmy |-> Dmy1],
      [ax |-> Late, gap |-> 1, h0 |-> FALSE, dmy |-> Dmy1],
      [ax |-> Night, gap |-> -1, h0 |-> FALSE, dmy |-> DmySpring] }

GridBooks ==
    { Sheet41(GridSheet(v.ax, GridRows, v.gap, v.h0, "full", TRUE, v.dmy, body1)) :
        v \in GridVariants, body1 \in [1..FreeRows -> {CA, CApad, CB, NaN}] }

\* sheets for workbooks of several weeks
Good1 == GridSheet(Asc, GridRows, -1, FALSE, "full", FALSE, Dmy1, <<CA, CA, CB>>)
Good3 == GridSheet(Asc, GridRows, -1, FALSE, "full", FALSE, Dmy1, <<CR2, CR2, CB>>)
NoTime == GridSheet(Asc, TimeColThreshold, -1, FALSE, "full", FALSE, Dmy1, <<CA, CA, CB>>)
NoDay == GridSheet(Asc, GridRows, -1, FALSE, "nodate", FALSE, Dmy1, <<CA, CA, CB>>)
\* a time every fifth row: more than 5 times, never 3 in 10 rows
NoStart ==
    [row \in 1..(5 * TimeColThreshold + 1) |->
        << IF (row - 1) % 5 = 0 THEN AxisCell(Asc, (row - 1) \div 5) ELSE NaN,
           IF row = 1 THEN Word("Montag") ELSE IF row = 2 THEN Text(<<Dmy1>>) ELSE CA >>]
EmptyDf == << >>

SheetPool == {Good1, Good3, NoTime, NoDay, NoStart, EmptyDf}

BookNames == << <<"4", "3">>, <<"K", "W", "4", "1">>, <<"4", "2">>, <<"7">>, <<"4", "0">> >>

WeekBooks ==
    UNION { { [i \in 1..n |-> [name |-> BookNames[i], df |-> f[i]]] : f \in [1..n -> SheetPool] } :
            n \in 1..MaxSheets }

\* sheet names
NameChars == {"4", "7", "K", "-"}

NameBooks ==
    UNION { { << [name |-> nm, df |-> Good1] >> : nm \in [1..n -> NameChars] } :
            n \in 1..MaxNameLen }

\* headers: a weekday in row w of column 1, its date d rows below, and what
\* follows; the axis and the texts lie in rows 10..15, column 2 is a day
HeaderSheet(w, d, dateText, second) ==
    [row \in 1..(HeaderRows + MaxShift + 3) |->
        LET q == row - 1
        IN  << IF q >= 10 /\ q <= 15 THEN AxisCell(Asc, q - 10) ELSE NaN,
               IF q = w THEN Word("Montag")
               ELSE IF q = w + d THEN Text(dateText)
               ELSE IF second = "date" /\ q = w + d + 1 THEN Text(<<Dmy2>>)
               ELSE IF second = "weekday" /\ q = w + d + 1 THEN Word("Dienstag")
               ELSE IF second = "weekday" /\ q = w + d + 2 THEN Text(<<Dmy2>>)
               ELSE IF second = "between" /\ q = w + 1 THEN Word("Mittwoch")
               ELSE IF q \in {10, 11} THEN CA ELSE NaN,
               IF q = 0 THEN Word("Freitag")
               ELSE IF q = 1 THEN Text(<<DMY(10, 10, 2025)>>)
               ELSE IF q \in {10, 11} THEN CB ELSE NaN >>]

HeaderBooks ==
    { Sheet41(HeaderSheet(w, d, dateText, second)) :
        w \in {0, 2, HeaderRows - 1, HeaderRows}, d \in 1..MaxShift,
        dateText \in {<<Dmy1>>, <<DmyBad>>, <<W("Datum:"), SP, Dmy1>>},
        second \in {"none", "date", "weekday", "between"} }

\* axes: n1 times from row a on, then g rows without, then n2 times
AxisSheet(a, n1, g, n2) ==
    [row \in 1..(a + n1 + g + n2 + 1) |->
        LET q == row - 1
        IN  << IF q >= a /\ q < a + n1 THEN AxisCell(Asc, q)
               ELSE IF q >= a + n1 + g /\ q < a + n1 + g + n2 THEN AxisCell(Asc, q)
               ELSE NaN,
               IF q = 0 THEN Word("Montag") ELSE IF q = 1 THEN Text(<<Dmy1>>) ELSE CA >>]

AxisBooks ==
    { Sheet41(AxisSheet(a, n1, g, n2)) :
        a \in 0..MaxLead, n1 \in 1..StartCount, g \in 1..MaxGap, n2 \in {3, 5, 6} }

\* the end-to-end scenario of the specification: three times only
ScenarioSheet(s, native, other) ==
    [row \in 1..(s + 3) |->
        LET q == row - 1
            t == IF q = s THEN time(9, 0) ELSE IF q = s + 1 THEN time(9, 45) ELSE time(10, 30)
        IN  << IF q < s THEN NaN
               ELSE IF native THEN TimeCell(t.h, t.m) ELSE Text(<<HM(t.h, t.m)>>),
               IF q = 0 THEN Word("Montag")
               ELSE IF q = 2 THEN Text(<<Dmy1>>)
               ELSE IF q \in {s, s + 1} THEN CA
               ELSE IF q = s + 2 THEN other
               ELSE NaN >>]

ScenarioBooks ==
    { Sheet41(ScenarioSheet(s, native, other)) :
        s \in 3..(3 + ScenarioShift), native \in BOOLEAN, other \in {CB, NaN} }

Workbooks == GridBooks \cup WeekBooks \cup NameBooks \cup HeaderBooks \cup AxisBooks
             \cup ScenarioBooks

\* dt.datetime.now(), naive: around the Networks event of 2025-10-06, which
\* starts 09:00 and ends 09:50
RefStart == combine(date(2025, 10, 6), time(9, 0))
RefEnd == combine(date(2025, 10, 6), time(9, 50))

NowNaive ==
    { RefEnd + k * MinutesPerDay : k \in {6, 7, 8} }
    \cup { RefEnd + KeepPastDays * MinutesPerDay + 1 }
    \cup { RefStart - k * MinutesPerDay : k \in {119, 120, 121} }
    \cup { RefStart - KeepFutureDays * MinutesPerDay - 1 }

\* lines 389-390
Retain ==
    /\ pc = "parsed"
    /\ \E n \in NowNaive :
          /\ now' = localize(n)
          /\ out' = SelectSeq(events, LAMBDA e : retained(e, now'))
    /\ pc' = "done"
    /\ UNCHANGED <<sheets, kw, si, time_col, col_dates, day_cols, start_row, r, events, raw>>

Init ==
    /\ sheets \in Workbooks
    /\ pc = "start"
    /\ kw = << >>
    /\ si = 1
    /\ time_col = NoIndex
    /\ col_dates = << >>
    /\ day_cols = << >>
    /\ start_row = NoIndex
    /\ r = 0
    /\ events = << >>
    /\ raw = << >>
    /\ now = 0
    /\ out = << >>

Next ==
    \/ ListSheets
    \/ FindTimeCol
    \/ FindDayCols
    \/ FindStartRow
    \/ ScanRow
    \/ Finish
    \/ Retain

Spec == Init /\ [][Next]_vars

(***************************************************************************)
(* Properties                                                              *)
(***************************************************************************)
Range(sq) == {sq[i] : i \in DOMAIN sq}

\* the loops over the sheets are through and line 321 is next
Scanned == pc = "loop" /\ si > Len(kw)

\* the only selected sheet of the workbook went through the while loop
OneSheetScanned ==
    /\ Scanned
    /\ Len(kw) = 1
    /\ ~ empty(sheets[kw[1]].df)
    /\ time_col # NoIndex
    /\ find_time_col(sheets[kw[1]].df) # NoIndex
    /\ extract_dates_from_header(sheets[kw[1]].df) # << >>
    /\ start_row # NoIndex

CellText(df, row, c) == strip(str(iat(df, row, c)))

\* rows a..b of column c lie under times and hold one text, which is not blank
SameText(df, tc, c, a, b) ==
    /\ ~ blank(CellText(df, a, c))
    /\ \A k \in a..b : IsTime(iat(df, k, tc)) /\ CellText(df, k, c) = CellText(df, a, c)

\* the maximal runs of the grid, as <<column, first row, last row>>
Runs(df, tc, cols, first) ==
    { run \in cols \X (first..(len(df) - 1)) \X (first..(len(df) - 1)) :
        /\ run[2] <= run[3]
        /\ SameText(df, tc, run[1], run[2], run[3])
        /\ run[2] = first \/ ~ SameText(df, tc, run[1], run[2] - 1, run[2])
        /\ run[3] = len(df) - 1 \/ ~ SameText(df, tc, run[1], run[3], run[3] + 1) }

IsEventOfRun(e, df, tc, dates, run) ==
    /\ e.start = localize(combine(dates[run[1]], try_parse_time(iat(df, run[2], tc))))
    /\ e.end = localize(combine(dates[run[1]], try_parse_time(iat(df, run[3], tc))) + GraceMinutes)

\* C1: every maximal run of one text under times, in a day column, gives
\* exactly one event, from the time of its first row to the time of its last
\* row plus 5 minutes.
Cex_C1_OneEventPerRun ==
    (OneSheetScanned /\ time_col \notin DOMAIN col_dates) =>
        LET df == sheets[kw[1]].df
            runs == Runs(df, time_col, DOMAIN col_dates, start_row)
        IN  /\ Len(events) = Cardinality(runs)
            /\ \A run \in runs :
                  \E i \in DOMAIN events : IsEventOfRun(events[i], df, time_col, col_dates, run)

\* C2: the workbook of the end-to-end scenario gives exactly one event,
\* Networks, 2025-10-06 09:00 to 10:35.
Cex_C2_Scenario ==
    (pc = "parsed" /\ sheets \in ScenarioBooks) =>
        /\ Len(events) = 1
        /\ events[1].title = <<W("Networks")>>
        /\ events[1].start = localize(combine(date(2025, 10, 6), time(9, 0)))
        /\ events[1].end = localize(combine(date(2025, 10, 6), time(10, 35)))

\* C2, amended: the workbook of the end-to-end scenario gives no event; its
\* three times are not more than 5, no time column is found and the sheet
\* is left before its header is read.
Thm_C2_ScenarioSkipped ==
    sheets \in ScenarioBooks =>
        /\ time_col = NoIndex /\ col_dates = << >> /\ events = << >>
        /\ pc \in {"start", "loop", "parsed", "done"}
        /\ pc = "done" => out = << >>

\* C2, the case: the scenario's sheet was selected and the run is through
Wit_C2_ScenarioParsed ==
    /\ pc = "parsed"
    /\ sheets \in ScenarioBooks
    /\ Len(kw) = 1 /\ si = 2

\* C3: every returned event ends strictly after it starts.
Thm_C3_EndAfterStart ==
    /\ pc \in {"parsed", "done"} => \A i \in DOMAIN events : events[i].end > events[i].start
    /\ pc = "done" => \A i \in DOMAIN out : out[i].end > out[i].start

\* the wall-clock day of an instant of the summer-time test dates
SummerDay(instant) == (instant + 120) \div MinutesPerDay

\* C3, the case: an event that does not end after its start was built and is
\* gone, and an event that ends after midnight was returned
Wit_C3_DegenerateDropped ==
    /\ pc = "parsed"
    /\ \E i \in DOMAIN raw : raw[i].end <= raw[i].start
    /\ \E i \in DOMAIN events : SummerDay(events[i].end) > SummerDay(events[i].start)

\* C8: while a sheet is scanned, day_cols is not empty and ascending and
\* time_col is none of the day columns.
Cex_C8_GridAnchors ==
    pc = "scan" =>
        /\ day_cols # << >>
        /\ \A i \in 1..(Len(day_cols) - 1) : day_cols[i] < day_cols[i + 1]
        /\ \A i \in DOMAIN day_cols : day_cols[i] # time_col

\* C4: the returned list holds no event twice, keeps every event that ends
\* after its start (so two events that differ in one field both stay), and
\* removing duplicates from the list, or from the list written twice, gives
\* the list again.
Thm_C4_Dedup ==
    pc = "parsed" =>
        /\ \A i, j \in DOMAIN events : i # j => events[i] # events[j]
        /\ \A i \in DOMAIN raw : raw[i].end > raw[i].start => raw[i] \in Range(events)
        /\ Range(events) \subseteq Range(raw)
        /\ uniq_values(positive(events)) = events
        /\ uniq_values(positive(events \o events)) = events

DifferOnlyInRoom(e, f) ==
    /\ e.room # f.room
    /\ e.title = f.title /\ e.lecturer = f.lecturer /\ e.start = f.start /\ e.end = f.end

\* C4, the case: duplicates were removed, and two events that differ in the
\* room alone were both returned
Wit_C4_DuplicatesRemoved ==
    /\ pc = "parsed"
    /\ Len(events) < Len(positive(raw))
    /\ \E i, j \in DOMAIN events : DifferOnlyInRoom(events[i], events[j])

\* the three anchors of a sheet, as the specification names them
HasTimeColumn(df) ==
    \E c \in 0..(ncols(df) - 1) :
        /\ c < TimeColCandidates
        /\ Cardinality({row \in 0..(len(df) - 1) :
                           row < TimeColRows /\ IsTime(iat(df, row, c))}) > TimeColThreshold

HasDayColumn(df) == DOMAIN extract_dates_from_header(df) # {}

HasStartRow(df) == find_start_row(df, find_time_col(df)) # NoIndex

Complete(df) == ~ empty(df) /\ HasTimeColumn(df) /\ HasDayColumn(df) /\ HasStartRow(df)

\* the events of a sheet that has the three anchors: one for each row under
\* a time, from the start row on, and each day column with a text
SheetEvents(df) ==
    LET tc == find_time_col(df)
        dates == extract_dates_from_header(df)
        first == find_start_row(df, tc)
    IN  { make_event(df, tc, dates, row, c, CellText(df, row, c)) :
            <<row, c>> \in { x \in (first..(len(df) - 1)) \X DOMAIN dates :
                               IsTime(iat(df, x[1], tc)) /\ ~ blank(CellText(df, x[1], x[2])) } }

CompleteSheets == {j \in Range(kw) : Complete(sheets[j].df)}

\* C5: the run always comes to its end, and the events gathered are those of
\* the selected sheets that have a time column, a day column and a start
\* row; the other sheets add nothing, wherever they stand.
Thm_C5_SkipMalformed ==
    /\ Scanned => Range(events) = UNION {SheetEvents(sheets[j].df) : j \in CompleteSheets}
    /\ pc = "parsed" =>
          /\ Range(raw) = UNION {SheetEvents(sheets[j].df) : j \in CompleteSheets}
          /\ Range(events) = {e \in Range(raw) : e.end > e.start}
    /\ (pc \in {"daycols", "startrow", "scan"}) => si <= Len(kw)

\* C5, the case: a sheet without anchors before and another after a sheet
\* with anchors, whose events were returned
Wit_C5_MalformedAround ==
    /\ pc = "parsed"
    /\ events # << >>
    /\ \E a, b, c \in DOMAIN kw :
          /\ a < b /\ b < c
          /\ ~ Complete(sheets[kw[a]].df)
          /\ Complete(sheets[kw[b]].df)
          /\ ~ Complete(sheets[kw[c]].df)
          /\ sheets[kw[a]].df # sheets[kw[c]].df

Max(a, b) == IF a >= b THEN a ELSE b

WindowStart == now - KeepPastDays * MinutesPerDay
WindowEnd == now + KeepFutureDays * MinutesPerDay

\* the interval of e and the window have an instant in common
Intersects(e) == Max(e.start, WindowStart) <= Min(e.end, WindowEnd)

\* C6: main keeps exactly the events whose interval meets the window from 7
\* days before now to 120 days after now, both ends included.
Thm_C6_Retention ==
    pc = "done" =>
        /\ Range(out) \subseteq Range(events)
        /\ \A i \in DOMAIN events :
              LET e == events[i]
              IN  /\ (e \in Range(out)) <=> Intersects(e)
                  /\ e.end = now - 8 * MinutesPerDay => e \notin Range(out)
                  /\ e.end = now - 6 * MinutesPerDay => e \in Range(out)
                  /\ e.start = now + 121 * MinutesPerDay => e \notin Range(out)
                  /\ e.start = now + 119 * MinutesPerDay => e \in Range(out)
                  /\ e.end = WindowStart => e \in Range(out)
                  /\ e.start = WindowEnd => e \in Range(out)

\* C6, the case: an event that ends at the very start of the window was
\* kept, and an event that ends before it was dropped
Wit_C6_Boundary ==
    /\ pc = "done"
    /\ \E i \in DOMAIN events : events[i].end = WindowStart /\ events[i] \in Range(out)
    /\ \E i \in DOMAIN events : events[i].end < WindowStart /\ events[i] \notin Range(out)

EndsInTwoDigits(nm) == Len(nm) >= 2 /\ IsDigit(nm[Len(nm) - 1]) /\ IsDigit(nm[Len(nm)])

AtMostOneDigit(nm) == Len(nm) <= 1 /\ \A i \in DOMAIN nm : IsDigit(nm[i])

\* C7: a selected sheet has a name whose last two characters are digits;
\* no other name, a single digit for one, is selected.
Cex_C7_TwoDigitsOnly ==
    pc # "start" => \A i \in DOMAIN kw : EndsInTwoDigits(sheets[kw[i]].name)

\* C7, amended: a sheet is selected exactly if the last two characters of
\* its name are digits or the name is a single digit; each selected sheet
\* is listed once, and events come from selected sheets alone.
Thm_C7_Selection ==
    /\ pc # "start" =>
          /\ \A j \in DOMAIN sheets :
                (j \in Range(kw)) <=>
                    (EndsInTwoDigits(sheets[j].name) \/ AtMostOneDigit(sheets[j].name))
          /\ \A a, b \in DOMAIN kw : a # b => kw[a] # kw[b]
    /\ (pc = "parsed" /\ kw = << >>) => events = << >>

\* C7, the case: the sheet named 7 was selected and gave events
Wit_C7_SingleDigit ==
    /\ pc = "parsed"
    /\ \E i \in DOMAIN kw : sheets[kw[i]].name = <<"7">>
    /\ Len(sheets) = 1
    /\ events # << >>

\* the number of times in the count rows after row
TimesBelow(df, tc, row, count) ==
    Cardinality({k \in (row + 1)..(row + count) : k < len(df) /\ IsTime(iat(df, k, tc))})

\* the reading of the specification: a time, and 3 times in the following 10 rows
StartAsClaimed(df, tc, row) ==
    IsTime(iat(df, row, tc)) /\ TimesBelow(df, tc, row, 10) >= 3

\* what holds: a time, and 2 times in the following 9 rows
StartAsCoded(df, tc, row) ==
    IsTime(iat(df, row, tc)) /\ TimesBelow(df, tc, row, 9) >= 2

\* C9: the start row is the first row with a time in the time column and
\* at least 3 times in the following 10 rows.
Cex_C9_ThreeOfNextTen ==
    pc = "scan" =>
        /\ StartAsClaimed(Df, time_col, start_row)
        /\ \A q \in 0..(start_row - 1) : ~ StartAsClaimed(Df, time_col, q)

\* C9, amended: the start row is the first row with a time in the time
\* column and at least 2 times in the following 9 rows (3 in the 10 rows
\* that begin with it); a sheet whose time column has no such row is left.
Thm_C9_StartRow ==
    /\ pc = "scan" =>
          /\ StartAsCoded(Df, time_col, start_row)
          /\ \A q \in 0..(start_row - 1) : ~ StartAsCoded(Df, time_col, q)
    /\ (Scanned /\ Len(kw) = 1 /\ HasTimeColumn(sheets[kw[1]].df)
          /\ HasDayColumn(sheets[kw[1]].df) /\ start_row = NoIndex) =>
          \A q \in 0..(len(sheets[kw[1]].df) - 1) :
              ~ StartAsCoded(sheets[kw[1]].df, find_time_col(sheets[kw[1]].df), q)

\* C9, the case: the chosen row has only 2 times in the 10 rows after it
Wit_C9_TwoBelow ==
    /\ pc = "scan"
    /\ r = start_row
    /\ ~ StartAsClaimed(Df, time_col, start_row)

HasPattern(df, row, c) == row < len(df) /\ date_search(CellText(df, row, c)) # None

IsWeekdayCell(df, row, c) ==
    /\ row < HeaderRows /\ row < len(df)
    /\ Len(CellText(df, row, c)) = 1
    /\ CellText(df, row, c)[1].t = "w"
    /\ LowerWord(CellText(df, row, c)[1].w) \in Weekdays

\* the rows 1 to 4 below (row, c) with the first date pattern: one or none
FirstPattern(df, row, c) ==
    { k \in (row + 1)..(row + LookAhead) :
        HasPattern(df, k, c) /\ \A q \in (row + 1)..(k - 1) : ~ HasPattern(df, q, c) }

PatternDate(df, k, c) ==
    LET m == date_search(CellText(df, k, c)) IN date(m.y, m.mo, m.d)

Columns(df) == 0..(ncols(df) - 1)

Ascending(sq) == \A i \in 1..(Len(sq) - 1) : sq[i] < sq[i + 1]

\* C10: each weekday cell of the first 30 rows binds its column to the date
\* of the first date pattern in the 4 rows below it; the day columns are
\* the columns bound, ascending.
Cex_C10_EachWeekdayBinds ==
    pc \in {"startrow", "scan"} =>
        /\ \A c \in Columns(Df) : \A row \in 0..(len(Df) - 1) :
              IsWeekdayCell(Df, row, c) =>
                  \A k \in FirstPattern(Df, row, c) :
                      c \in DOMAIN col_dates /\ col_dates[c] = PatternDate(Df, k, c)
        /\ \A c \in DOMAIN col_dates : \E row \in 0..(len(Df) - 1) :
              IsWeekdayCell(Df, row, c) /\ FirstPattern(Df, row, c) # {}
        /\ Range(day_cols) = DOMAIN col_dates /\ Ascending(day_cols)

\* the weekday cells of column c whose first date pattern is a calendar date
Binding(df, c) ==
    { row \in 0..(len(df) - 1) :
        /\ IsWeekdayCell(df, row, c)
        /\ \E k \in FirstPattern(df, row, c) :
              LET m == date_search(CellText(df, k, c)) IN ValidDate(m.y, m.mo, m.d) }

\* C10, amended: a weekday cell of the first 30 rows binds its column to
\* the first date pattern in the 4 rows below it if that is a calendar
\* date, and of several such cells in a column the lowest one decides; the
\* day columns are the columns bound, ascending.
Thm_C10_LastWeekdayBinds ==
    pc \in {"startrow", "scan"} =>
        /\ \A c \in Columns(Df) :
              /\ (c \in DOMAIN col_dates) <=> (Binding(Df, c) # {})
              /\ \A row \in Binding(Df, c) :
                    (\A q \in Binding(Df, c) : q <= row) =>
                        \A k \in FirstPattern(Df, row, c) : col_dates[c] = PatternDate(Df, k, c)
        /\ Range(day_cols) = DOMAIN col_dates /\ Ascending(day_cols)

\* C10, the case: a column with two binding weekday cells and different dates
Wit_C10_TwoWeekdays ==
    /\ pc = "scan"
    /\ \E c \in Columns(Df) : \E a, b \in Binding(Df, c) :
          /\ a < b
          /\ \E k \in FirstPattern(Df, a, c) : col_dates[c] # PatternDate(Df, k, c)
====
